---- MODULE Spec2Model ----
(***************************************************************************)
(* A model of the AutoTypewriter controller of src/main.js: the singleton  *)
(* object, the two browser interval timers it schedules, the overlay it    *)
(* creates, and the host page it reads from and dispatches keystrokes to.  *)
(***************************************************************************)
EXTENDS Integers, Sequences, FiniteSets, TLC

(* ------------------------------- bounds -------------------------------- *)

\* Ticks of one session that the model follows (charactersTyped is capped).
MaxTyped == 2
\* Readings of the clock Date.now() that the model distinguishes.
MaxTime == 2
\* Pixels in each direction over which a dragged overlay is followed.
MaxOffset == 1
\* Once-only restore listeners registered on the overlay at one time.
MaxListeners == 2

(* ------------------------------ constants ------------------------------ *)

\* The dividend of the tick interval: 600000 ms are ten minutes.
TenMinutesMs == 600000
\* The largest rate the prompt loop accepts.
MaxRate == 10000
\* The rate the overlay's markup shows before configuration.
MarkupSpeed == 100
\* The largest number isValidInput accepts.
ValidInputMax == 1000

(* ------------------------------- state --------------------------------- *)

VARIABLES
    pc,               \* position of init(): "constructed", "prompt" (blocked in prompt()), "ready" (returned)
    alertShown,       \* the message of the last alert() raised by showError
    isRunning,        \* this.isRunning
    isPaused,         \* this.isPaused
    intervalId,       \* this.intervalId; 0 is null
    observer,         \* this.observer is not null
    observing,        \* the MutationObserver is connected to the start dialog
    isDarkMode,       \* this.isDarkMode
    config,           \* this.config: charsPerTenMins, msToWait, targetElement, startBox
    ui,               \* this.ui: NoUI (null) or the overlay's DOM state
    statsInterval,    \* this.statsInterval; 0 is undefined
    stats,            \* this.stats: charactersTyped, startTime (0 is null)
    tickTimers,       \* the browser's active interval timers that run the typing callback
    redrawTimers,     \* the browser's active interval timers that run updateStats
    now,              \* Date.now()
    host,             \* the host page: innerHTML of the target element, whether an element has focus
    drag,             \* the variables of setupDrag's closure, and the overlay's cursor and transform styles
    dispatched,       \* keypress events dispatched to the host page since the most recent startTyping()
    raised,           \* the handler that ran last ended in an uncaught exception
    op,               \* the handler that ran last
    pre,              \* the run state in which the last handler started
    press,            \* where the pointer went down for the latest drag, and the overlay's offset then
    arg               \* what the last handler was given or returned: the prompt's entry, the key typed, the snapshot

vars == <<pc, alertShown, isRunning, isPaused, intervalId, observer, observing,
          isDarkMode, config, ui, statsInterval, stats, tickTimers, redrawTimers,
          now, host, drag, dispatched, raised, op, pre, arg, press>>

\* The fields of the controller (everything `this` holds besides the overlay).
controller == <<isRunning, isPaused, intervalId, observer, observing, config, stats>>

NoUI == [present |-> FALSE]

\* The run state of the specification's state machine.
RunState == IF isRunning THEN (IF isPaused THEN "Paused" ELSE "Running")
            ELSE (IF isPaused THEN "Invalid" ELSE "Idle")

(* ------------------------- values and helpers -------------------------- *)

\* A JavaScript number that is the exact quotient n / d (d > 0).
Quot(n, d) == [n |-> n, d |-> d]
Zero == Quot(0, 1)

(* JavaScript numbers are IEEE 754 doubles. A double other than 0 is kept as
   its 53-bit significand m (a sequence of bits, the most significant first,
   which is 1) and the exponent e of its last bit: its value is m * 2^e.
   The arithmetic on the way works on natural numbers of any size, kept as
   sequences of 15-bit limbs, the most significant first.                  *)

\* The number of bits of a double's significand.
SignificandBits == 53
\* The number of bits of a limb, and the limbs the dividend is extended by
\* before the long division, so that the quotient has more bits than a significand.
LimbBits == 15
ExtraLimbs == 4

\* The limbs of the natural number n < 2^31.
ToLimbs(n) == <<n \div 2^30, (n \div 2^15) % 2^15, n % 2^15>>

Zeros(k) == [i \in 1..k |-> 0]

\* The bits of the limbs l.
LimbsToBits(l) ==
    [i \in 1..(LimbBits * Len(l)) |->
        (l[((i - 1) \div LimbBits) + 1] \div 2^(LimbBits - 1 - ((i - 1) % LimbBits))) % 2]

\* The number that at most LimbBits bits denote.
RECURSIVE ChunkValue(_)
ChunkValue(b) ==
    IF b = <<>> THEN 0 ELSE 2 * ChunkValue(SubSeq(b, 1, Len(b) - 1)) + b[Len(b)]

\* The limbs of the bits b.
BitsToLimbs(b) ==
    LET pad == (LimbBits - (Len(b) % LimbBits)) % LimbBits
        p == Zeros(pad) \o b
    IN [j \in 1..(Len(p) \div LimbBits) |->
           ChunkValue(SubSeq(p, LimbBits * (j - 1) + 1, LimbBits * j))]

\* The bits b without their leading zeros.
StripZeros(b) ==
    IF \A i \in 1..Len(b) : b[i] = 0 THEN <<>>
    ELSE LET first == CHOOSE i \in 1..Len(b) : b[i] = 1 /\ \A j \in 1..(i - 1) : b[j] = 0
         IN SubSeq(b, first, Len(b))

\* b + 1, for bits b that are not all 1.
Increment(b) ==
    LET last == CHOOSE i \in 1..Len(b) : b[i] = 0 /\ \A j \in (i + 1)..Len(b) : b[j] = 1
    IN [i \in 1..Len(b) |-> IF i < last THEN b[i] ELSE IF i = last THEN 1 ELSE 0]

\* Long division of the limbs l by the small number d.
RECURSIVE LongDiv(_, _, _, _)
LongDiv(l, d, rem, q) ==
    IF l = <<>> THEN [q |-> q, rem |-> rem]
    ELSE LET t == rem * 2^LimbBits + Head(l)
         IN LongDiv(Tail(l), d, t % d, Append(q, t \div d))

\* The limbs l times the small number k.
RECURSIVE MulSmall(_, _, _, _)
MulSmall(l, k, carry, out) ==
    IF l = <<>> THEN ToLimbs(carry) \o out
    ELSE LET t == l[Len(l)] * k + carry
         IN MulSmall(SubSeq(l, 1, Len(l) - 1), k, t \div 2^LimbBits,
                     <<t % 2^LimbBits>> \o out)

\* The double nearest to b * 2^e (ties to even), where the bits b have no
\* leading zero and sticky says that the exact value is a little more than b * 2^e.
RoundToDouble(b, e, sticky) ==
    IF b = <<>> THEN [m |-> <<>>, e |-> 0]
    ELSE IF Len(b) <= SignificandBits
    THEN [m |-> b \o Zeros(SignificandBits - Len(b)), e |-> e - (SignificandBits - Len(b))]
    ELSE LET m == SubSeq(b, 1, SignificandBits)
             guard == b[SignificandBits + 1]
             more == sticky \/ \E i \in (SignificandBits + 2)..Len(b) : b[i] = 1
             up == guard = 1 /\ (more \/ m[SignificandBits] = 1)
             ex == e + Len(b) - SignificandBits
         IN IF ~up THEN [m |-> m, e |-> ex]
            ELSE IF \A i \in 1..SignificandBits : m[i] = 1
                 THEN [m |-> <<1>> \o Zeros(SignificandBits - 1), e |-> ex + 1]
                 ELSE [m |-> Increment(m), e |-> ex]

\* The double of the integer n.
DoubleOfInt(n) == RoundToDouble(StripZeros(LimbsToBits(ToLimbs(n))), 0, FALSE)

\* n / d in JavaScript, for integers n >= 0 and 0 < d < 2^15.
DoubleDiv(n, d) ==
    LET r == LongDiv(ToLimbs(n) \o Zeros(ExtraLimbs), d, 0, <<>>)
    IN RoundToDouble(StripZeros(LimbsToBits(r.q)), 0 - LimbBits * ExtraLimbs, r.rem # 0)

\* x * k in JavaScript, for a double x >= 0 and an integer 0 < k < 2^15.
DoubleMulInt(x, k) ==
    RoundToDouble(StripZeros(LimbsToBits(MulSmall(BitsToLimbs(x.m), k, 0, <<>>))), x.e, FALSE)

\* The double that the quotient q is.
JsNumber(q) == DoubleDiv(q.n, q.d)

\* The entries the user may type into the prompt, as sequences of characters.
Entries == { <<"a", "b">>, <<"0">>, <<"-", "5">>, <<"6", "0", "0">>,
             <<"1", "0", "0", "0", "0">>, <<"2", "0", "0", "0", "0">> }

\* Further entries for the specification that follows the configuration alone: a
\* number with trailing text, a rate that does not divide 600000, the smallest rate.
ConfigEntries == Entries \cup { <<"6", "0", "0", "x">>, <<"1", "4", "1">>, <<"1">> }

DigitChars == <<"0", "1", "2", "3", "4", "5", "6", "7", "8", "9">>
IsDigit(c) == \E i \in 1..10 : DigitChars[i] = c
DigitVal(c) == (CHOOSE i \in 1..10 : DigitChars[i] = c) - 1

RECURSIVE SkipSpace(_)
SkipSpace(s) == IF s # <<>> /\ Head(s) = " " THEN SkipSpace(Tail(s)) ELSE s

RECURSIVE DigitPrefix(_)
DigitPrefix(s) == IF s # <<>> /\ IsDigit(Head(s)) THEN <<Head(s)>> \o DigitPrefix(Tail(s))
                  ELSE <<>>

RECURSIVE DigitsValue(_, _)
DigitsValue(s, acc) == IF s = <<>> THEN acc
                       ELSE DigitsValue(Tail(s), 10 * acc + DigitVal(Head(s)))

\* parseInt(string): leading white space, an optional sign, then the longest
\* prefix of decimal digits; NaN when there is no digit.
parseInt(s) ==
    LET t == SkipSpace(s)
        neg == t # <<>> /\ Head(t) = "-"
        u == IF t # <<>> /\ Head(t) \in {"-", "+"} THEN Tail(t) ELSE t
        d == DigitPrefix(u)
    IN IF d = <<>> THEN [nan |-> TRUE, val |-> 0]
       ELSE [nan |-> FALSE, val |-> IF neg THEN 0 - DigitsValue(d, 0) ELSE DigitsValue(d, 0)]

\* The condition under which the do-while loop of setupConfiguration asks again.
promptRejects(n) == n.nan \/ n.val <= 0 \/ n.val > MaxRate

\* What a target element may contain.
Texts == {"", "a"}

\* isValidInput(input).
isValidInput(input) ==
    LET num == parseInt(input)
    IN ~num.nan /\ num.val > 0 /\ num.val <= ValidInputMax

\* The states of the host page before it replaces its target element: text is
\* the innerHTML of the element found at configuration, focus whether
\* document.activeElement is an element, current the innerHTML of the element
\* that is the page's target now (the same element, unless replaced).
HostStates ==
    { [text |-> t, focus |-> f, replaced |-> FALSE, current |-> t] :
        t \in Texts, f \in BOOLEAN }

\* The handle setInterval returns: an id no active timer has and no field still holds.
\* (Browsers never reuse a handle; a handle nothing refers to any more can stand
\* for a new one.)
UsedIds == {t.id : t \in tickTimers} \cup redrawTimers \cup {intervalId, statsInterval}
FreshId == CHOOSE n \in 1..(Cardinality(UsedIds) + 1) :
              n \notin UsedIds /\ \A m \in 1..(n - 1) : m \in UsedIds

\* clearInterval(id) on the typing timers and on the redraw timers.
clearTick(id) == {t \in tickTimers : t.id # id}
clearRedraw(id) == redrawTimers \ {id}

(* ------------------------------ constructor ---------------------------- *)

Init ==
    /\ pc = "constructed"
    /\ alertShown = "none"
    /\ isRunning = FALSE
    /\ isPaused = FALSE
    /\ intervalId = 0
    /\ observer = FALSE
    /\ observing = FALSE
    /\ isDarkMode = TRUE
    /\ config = [charsPerTenMins |-> 0, msToWait |-> Zero,
                 targetElement |-> FALSE, startBox |-> FALSE]
    /\ ui = NoUI
    /\ statsInterval = 0
    /\ stats = [charactersTyped |-> 0, startTime |-> 0, lastTypedTime |-> 0]
    /\ tickTimers = {}
    /\ redrawTimers = {}
    /\ now = 1
    /\ host \in HostStates
    /\ drag = [isDragging |-> FALSE, startX |-> 0, startY |-> 0,
               currentX |-> 0, currentY |-> 0,
               cursor |-> "auto", transform |-> "none"]
    /\ press = [x |-> 0, y |-> 0, currentX |-> 0, currentY |-> 0]
    /\ dispatched = 0
    /\ raised = FALSE
    /\ op = "new"
    /\ pre = "Idle"
    /\ arg = <<>>

\* Every handler records its name, the run state it started in and its input.
DidWith(name, input) == op' = name /\ pre' = RunState /\ arg' = input
Did(name) == DidWith(name, <<>>)

(* ----------------------------- initialization -------------------------- *)

\* The overlay as createUI builds it from its markup.
NewUI == [present |-> TRUE, minimized |-> FALSE, restoreListeners |-> 0,
          themeIcon |-> "moon", speedDisplay |-> MarkupSpeed,
          statusText |-> "Stopped", startDisabled |-> FALSE,
          pauseDisabled |-> TRUE, stopDisabled |-> TRUE,
          pauseText |-> "Pause", charsTyped |-> 0]

\* init() that builds the overlay before it checks the host site.
init_uiBeforeGate ==
    /\ pc = "constructed"
    /\ Did("init")
    /\ raised' = FALSE
    /\ \E compatible \in BOOLEAN, target \in BOOLEAN, box \in BOOLEAN :
         /\ ui' = NewUI
         /\ statsInterval' = FreshId
         /\ redrawTimers' = redrawTimers \cup {FreshId}
         /\ IF ~compatible
            THEN /\ alertShown' = "incompatible"
                 /\ pc' = "ready"
                 /\ UNCHANGED config
            ELSE /\ config' = [config EXCEPT !.startBox = box, !.targetElement = target]
                 /\ IF target
                    THEN pc' = "prompt" /\ UNCHANGED alertShown
                    ELSE pc' = "ready" /\ alertShown' = "initFailed"
    /\ UNCHANGED <<isRunning, isPaused, intervalId, observer, observing, isDarkMode,
                   stats, tickTimers, now, host, dispatched>>
    /\ UNCHANGED <<drag, press>>

\* init() up to the point where it returns or blocks in prompt(): the
\* compatibility gate, createUI and the element lookups of setupConfiguration.
init ==
    /\ pc = "constructed"
    /\ Did("init")
    /\ raised' = FALSE
    /\ \E compatible \in BOOLEAN, target \in BOOLEAN, box \in BOOLEAN :
         IF ~compatible
         THEN /\ alertShown' = "incompatible"
              /\ pc' = "ready"
              /\ UNCHANGED <<ui, statsInterval, redrawTimers, config>>
         ELSE /\ ui' = NewUI
              /\ statsInterval' = FreshId
              /\ redrawTimers' = redrawTimers \cup {FreshId}
              /\ config' = [config EXCEPT !.startBox = box, !.targetElement = target]
              /\ IF target
                 THEN pc' = "prompt" /\ UNCHANGED alertShown
                 ELSE pc' = "ready" /\ alertShown' = "initFailed"
    /\ UNCHANGED <<isRunning, isPaused, intervalId, observer, observing, isDarkMode,
                   stats, tickTimers, now, host, dispatched>>
    /\ UNCHANGED <<drag, press>>

\* promptEntry(e) that divides one minute, not ten, by the rate.
promptEntry_wrongDividend(e) ==
    /\ pc = "prompt"
    /\ DidWith("prompt", e)
    /\ raised' = FALSE
    /\ LET n == parseInt(e) IN
         IF promptRejects(n)
         THEN UNCHANGED <<pc, config, ui, observer, observing>>
         ELSE /\ pc' = "ready"
              /\ config' = [config EXCEPT !.charsPerTenMins = n.val,
                                          !.msToWait = Quot(TenMinutesMs \div 10, n.val)]
              /\ ui' = [ui EXCEPT !.speedDisplay = n.val]
              /\ \E visible \in BOOLEAN :
                   IF config.startBox /\ visible
                   THEN observer' = TRUE /\ observing' = TRUE
                   ELSE UNCHANGED <<observer, observing>>
    /\ UNCHANGED <<alertShown, isRunning, isPaused, intervalId, isDarkMode, statsInterval,
                   stats, tickTimers, redrawTimers, now, host, dispatched>>
    /\ UNCHANGED <<drag, press>>

\* One round of the prompt loop of setupConfiguration with the entry e; on a
\* valid entry the rest of init(): updateSpeedDisplay and setupEventHandling,
\* which registers the observer when the start dialog is visible.
promptEntry(e) ==
    /\ pc = "prompt"
    /\ DidWith("prompt", e)
    /\ raised' = FALSE
    /\ LET n == parseInt(e) IN
         IF promptRejects(n)
         THEN UNCHANGED <<pc, config, ui, observer, observing>>
         ELSE /\ pc' = "ready"
              /\ config' = [config EXCEPT !.charsPerTenMins = n.val,
                                          !.msToWait = Quot(TenMinutesMs, n.val)]
              /\ ui' = [ui EXCEPT !.speedDisplay = n.val]
              /\ \E visible \in BOOLEAN :
                   IF config.startBox /\ visible
                   THEN observer' = TRUE /\ observing' = TRUE
                   ELSE UNCHANGED <<observer, observing>>
    /\ UNCHANGED <<alertShown, isRunning, isPaused, intervalId, isDarkMode, statsInterval,
                   stats, tickTimers, redrawTimers, now, host, dispatched>>
    /\ UNCHANGED <<drag, press>>

(* ------------------------------ controller ----------------------------- *)

\* startTyping() without its isRunning guard.
startTyping_noGuard ==
    /\ isRunning' = TRUE
    /\ isPaused' = FALSE
    /\ stats' = [stats EXCEPT !.startTime = now, !.charactersTyped = 0]
    /\ intervalId' = FreshId
    /\ tickTimers' = tickTimers \cup {[id |-> FreshId, ms |-> config.msToWait]}
    /\ dispatched' = 0

\* startTyping() that keeps the count of the previous session.
startTyping_noReset ==
    IF isRunning
    THEN UNCHANGED <<isRunning, isPaused, stats, intervalId, tickTimers, dispatched>>
    ELSE /\ isRunning' = TRUE
         /\ isPaused' = FALSE
         /\ stats' = [stats EXCEPT !.startTime = now]
         /\ intervalId' = FreshId
         /\ tickTimers' = tickTimers \cup {[id |-> FreshId, ms |-> config.msToWait]}
         /\ dispatched' = 0

\* startTyping(): the assignments of the method.
startTyping ==
    IF isRunning
    THEN UNCHANGED <<isRunning, isPaused, stats, intervalId, tickTimers, dispatched>>
    ELSE /\ isRunning' = TRUE
         /\ isPaused' = FALSE
         /\ stats' = [stats EXCEPT !.startTime = now, !.charactersTyped = 0]
         /\ intervalId' = FreshId
         /\ tickTimers' = tickTimers \cup {[id |-> FreshId, ms |-> config.msToWait]}
         /\ dispatched' = 0

\* The key typeNextCharacter() reads: the innerHTML of the element that
\* setupConfiguration stored in config.targetElement.
keyToPress == host.text

\* String.prototype.charCodeAt(0) for the contents the model follows: the code
\* of the content's first character.
charCodeAt0(key) ==
    CASE key = "a" -> 97
      [] key = " " -> 32
      [] key = "&amp;" -> 38
      [] key = "ab" -> 97

\* A keypress event that does not bubble.
keypressEvent_notBubbling(key) ==
    [type |-> "keypress", key |-> key,
     keyCode |-> IF key = " " THEN 32 ELSE charCodeAt0(key),
     altKey |-> FALSE, ctrlKey |-> FALSE, shiftKey |-> FALSE, metaKey |-> FALSE,
     bubbles |-> FALSE, cancelable |-> TRUE]

\* The KeyboardEvent that typeNextCharacter() builds for the key it read.
keypressEvent(key) ==
    [type |-> "keypress", key |-> key,
     keyCode |-> IF key = " " THEN 32 ELSE charCodeAt0(key),
     altKey |-> FALSE, ctrlKey |-> FALSE, shiftKey |-> FALSE, metaKey |-> FALSE,
     bubbles |-> TRUE, cancelable |-> TRUE]

\* typeNextCharacter() that counts a keystroke although no element has focus.
typeNextCharacter_noFocusCheck ==
    /\ raised' = FALSE
    /\ IF ~config.targetElement THEN UNCHANGED <<stats, dispatched>>
       ELSE IF host.text = "" THEN UNCHANGED <<stats, dispatched>>
       ELSE /\ dispatched' = IF host.focus THEN dispatched + 1 ELSE dispatched
            /\ stats' = [stats EXCEPT !.charactersTyped = @ + 1, !.lastTypedTime = now]

\* typeNextCharacter() without its try/catch.
typeNextCharacter_noCatch ==
    /\ raised' = ~config.targetElement
    /\ IF ~config.targetElement THEN UNCHANGED <<stats, dispatched>>
       ELSE IF host.text = "" THEN UNCHANGED <<stats, dispatched>>
       ELSE IF host.focus
            THEN /\ dispatched' = dispatched + 1
                 /\ stats' = [stats EXCEPT !.charactersTyped = @ + 1, !.lastTypedTime = now]
            ELSE UNCHANGED <<stats, dispatched>>

\* typeNextCharacter(): a missing target element raises a TypeError that the
\* method's catch swallows.
typeNextCharacter ==
    /\ raised' = FALSE
    /\ IF ~config.targetElement THEN UNCHANGED <<stats, dispatched>>
       ELSE IF host.text = "" THEN UNCHANGED <<stats, dispatched>>
       ELSE IF host.focus
            THEN /\ dispatched' = dispatched + 1
                 /\ stats' = [stats EXCEPT !.charactersTyped = @ + 1, !.lastTypedTime = now]
            ELSE UNCHANGED <<stats, dispatched>>

\* The timer callback without its isPaused check.
tickCallback_noPauseCheck == typeNextCharacter

\* The callback startTyping hands to setInterval.
tickCallback ==
    IF ~isPaused THEN typeNextCharacter
    ELSE raised' = FALSE /\ UNCHANGED <<stats, dispatched>>

\* togglePause() without its isRunning guard.
togglePause_noGuard ==
    /\ isPaused' = ~isPaused
    /\ IF ui.present
       THEN /\ ui' = [ui EXCEPT !.pauseText = IF ~isPaused THEN "Resume" ELSE "Pause"]
            /\ raised' = FALSE
       ELSE raised' = TRUE /\ UNCHANGED ui

\* togglePause(): with the overlay gone the button lookup raises after the flip.
togglePause ==
    IF ~isRunning THEN raised' = FALSE /\ UNCHANGED <<isPaused, ui>>
    ELSE /\ isPaused' = ~isPaused
         /\ IF ui.present
            THEN /\ ui' = [ui EXCEPT !.pauseText = IF ~isPaused THEN "Resume" ELSE "Pause"]
                 /\ raised' = FALSE
            ELSE raised' = TRUE /\ UNCHANGED ui

\* stop() that leaves the pause flag as it is.
stop_keepsPaused ==
    /\ tickTimers' = IF intervalId # 0 THEN clearTick(intervalId) ELSE tickTimers
    /\ intervalId' = 0
    /\ observing' = IF observer THEN FALSE ELSE observing
    /\ observer' = FALSE
    /\ isRunning' = FALSE
    /\ UNCHANGED isPaused

\* stop() that forgets the timer handle without clearInterval.
stop_noClear ==
    /\ UNCHANGED tickTimers
    /\ intervalId' = 0
    /\ observing' = IF observer THEN FALSE ELSE observing
    /\ observer' = FALSE
    /\ isRunning' = FALSE
    /\ isPaused' = FALSE

\* stop() that leaves the observer registered.
stop_keepsObserver ==
    /\ tickTimers' = IF intervalId # 0 THEN clearTick(intervalId) ELSE tickTimers
    /\ intervalId' = 0
    /\ UNCHANGED <<observer, observing>>
    /\ isRunning' = FALSE
    /\ isPaused' = FALSE

\* stop(): the assignments of the method.
stop ==
    /\ tickTimers' = IF intervalId # 0 THEN clearTick(intervalId) ELSE tickTimers
    /\ intervalId' = 0
    /\ observing' = IF observer THEN FALSE ELSE observing
    /\ observer' = FALSE
    /\ isRunning' = FALSE
    /\ isPaused' = FALSE

\* getStatus() that computes the elapsed time without looking at startTime.
getStatus_elapsedFromZero ==
    [isRunning |-> isRunning,
     charsPerTenMins |-> config.charsPerTenMins,
     msToWait |-> config.msToWait,
     targetElement |-> config.targetElement,
     charactersTyped |-> stats.charactersTyped,
     timeRunning |-> now - stats.startTime]

\* getStatus(): the snapshot it returns.
getStatus ==
    [isRunning |-> isRunning,
     charsPerTenMins |-> config.charsPerTenMins,
     msToWait |-> config.msToWait,
     targetElement |-> config.targetElement,
     charactersTyped |-> stats.charactersTyped,
     timeRunning |-> IF stats.startTime # 0 THEN now - stats.startTime ELSE 0]

(* ------------------------------- overlay ------------------------------- *)

\* toggleTheme(): the flag flips and the overlay u gets the icon of the new theme.
toggleTheme(u) ==
    [u EXCEPT !.themeIcon = IF ~isDarkMode THEN "moon" ELSE "sun"]

\* toggleMinimize(): collapsing registers one more once-only restore listener.
toggleMinimize(u) ==
    IF u.minimized
    THEN [u EXCEPT !.minimized = FALSE]
    ELSE [u EXCEPT !.minimized = TRUE, !.restoreListeners = @ + 1]

\* restoreFromMinimized(e), for a click whose target is or is not one of the
\* three header buttons.
restoreFromMinimized(u, onButton) ==
    IF onButton THEN u ELSE [u EXCEPT !.minimized = FALSE]

\* The click reaches the overlay element: every registered restore listener
\* runs once and is removed.
bubble(u, onButton) ==
    IF u.restoreListeners > 0
    THEN [restoreFromMinimized(u, onButton) EXCEPT !.restoreListeners = 0]
    ELSE u

\* updateStats() that leaves the displayed character count as it was.
updateStats_staleCount ==
    IF ~ui.present THEN UNCHANGED ui
    ELSE ui' = [ui EXCEPT
                  !.statusText = IF isRunning THEN (IF isPaused THEN "Paused" ELSE "Running")
                                 ELSE "Stopped",
                  !.startDisabled = isRunning,
                  !.stopDisabled = ~isRunning,
                  !.pauseDisabled = ~isRunning]

\* updateStats(): the overlay's texts and button states, read from the session.
updateStats ==
    IF ~ui.present THEN UNCHANGED ui
    ELSE ui' = [ui EXCEPT
                  !.statusText = IF isRunning THEN (IF isPaused THEN "Paused" ELSE "Running")
                                 ELSE "Stopped",
                  !.startDisabled = isRunning,
                  !.stopDisabled = ~isRunning,
                  !.pauseDisabled = ~isRunning,
                  !.charsTyped = stats.charactersTyped]

\* closeUI() that leaves the redraw timer scheduled.
closeUI_keepsRedraw ==
    /\ stop
    /\ ui' = NoUI
    /\ redrawTimers' = redrawTimers

\* closeUI(): stop(), then the overlay is removed and the redraw timer cleared.
closeUI ==
    /\ stop
    /\ ui' = NoUI
    /\ redrawTimers' = IF statsInterval # 0 THEN clearRedraw(statsInterval) ELSE redrawTimers

(* ------------------------------- actions ------------------------------- *)

\* The Start button, or a call of startTyping().
Start ==
    /\ pc = "ready"
    /\ Did("startTyping")
    /\ raised' = FALSE
    /\ startTyping
    /\ UNCHANGED <<pc, alertShown, observer, observing, isDarkMode, config, ui,
                   statsInterval, redrawTimers, now, host>>
    /\ UNCHANGED <<drag, press>>

\* The Pause button, or a call of togglePause().
TogglePause ==
    /\ pc = "ready"
    /\ Did("togglePause")
    /\ togglePause
    /\ UNCHANGED <<pc, alertShown, isRunning, intervalId, observer, observing, isDarkMode,
                   config, statsInterval, stats, tickTimers, redrawTimers, now, host,
                   dispatched>>
    /\ UNCHANGED <<drag, press>>

\* A stop that also discards the counters of the session.
Stop_discardsStats ==
    /\ pc = "ready"
    /\ Did("stop")
    /\ raised' = FALSE
    /\ stop
    /\ stats' = [stats EXCEPT !.charactersTyped = 0, !.startTime = 0]
    /\ UNCHANGED <<pc, alertShown, isDarkMode, config, ui, statsInterval,
                   redrawTimers, now, host, dispatched>>
    /\ UNCHANGED <<drag, press>>

\* The Stop button, window.stopAutoTypewriter(), or a call of stop().
Stop ==
    /\ pc = "ready"
    /\ Did("stop")
    /\ raised' = FALSE
    /\ stop
    /\ UNCHANGED <<pc, alertShown, isDarkMode, config, ui, statsInterval, stats,
                   redrawTimers, now, host, dispatched>>
    /\ UNCHANGED <<drag, press>>

\* window.getAutoTypewriterStatus(), or a call of getStatus(); the step
\* records the snapshot that the call returned.
Status ==
    /\ pc = "ready"
    /\ DidWith("getStatus", <<getStatus>>)
    /\ raised' = FALSE
    /\ UNCHANGED <<pc, alertShown, isRunning, isPaused, intervalId, observer, observing,
                   isDarkMode, config, ui, statsInterval, stats, tickTimers, redrawTimers,
                   now, host, dispatched>>
    /\ UNCHANGED <<drag, press>>

\* A typing timer whose callback ends the session when it finds no character.
Tick_stopsOnEmpty ==
    /\ pc = "ready"
    /\ tickTimers # {}
    /\ (isPaused \/ stats.charactersTyped < MaxTyped)
    /\ tickCallback
    /\ DidWith("tick", IF dispatched' > dispatched
                       THEN <<keyToPress, keypressEvent(keyToPress)>> ELSE <<>>)
    /\ IF ~isPaused /\ keyToPress = ""
       THEN /\ isRunning' = FALSE
            /\ intervalId' = 0
            /\ tickTimers' = clearTick(intervalId)
       ELSE UNCHANGED <<isRunning, intervalId, tickTimers>>
    /\ UNCHANGED <<pc, alertShown, isPaused, observer, observing,
                   isDarkMode, config, ui, statsInterval, redrawTimers, now, host>>
    /\ UNCHANGED <<drag, press>>

\* An active typing timer fires. The session is followed for MaxTyped keystrokes.
\* The step records the key it read and the keypress event it dispatched.
Tick ==
    /\ pc = "ready"
    /\ tickTimers # {}
    /\ (isPaused \/ stats.charactersTyped < MaxTyped)
    /\ tickCallback
    /\ DidWith("tick", IF dispatched' > dispatched
                       THEN <<keyToPress, keypressEvent(keyToPress)>> ELSE <<>>)
    /\ UNCHANGED <<pc, alertShown, isRunning, isPaused, intervalId, observer, observing,
                   isDarkMode, config, ui, statsInterval, tickTimers, redrawTimers, now, host>>
    /\ UNCHANGED <<drag, press>>

\* An active redraw timer fires.
Redraw ==
    /\ pc = "ready"
    /\ redrawTimers # {}
    /\ Did("updateStats")
    /\ raised' = FALSE
    /\ updateStats
    /\ UNCHANGED <<pc, alertShown, isRunning, isPaused, intervalId, observer, observing,
                   isDarkMode, config, statsInterval, stats, tickTimers, redrawTimers, now,
                   host, dispatched>>
    /\ UNCHANGED <<drag, press>>

\* A click on the theme button that also pauses or resumes the session.
ClickTheme_pauses ==
    /\ pc = "ready"
    /\ ui.present /\ ~ui.minimized
    /\ Did("toggleTheme")
    /\ raised' = FALSE
    /\ isDarkMode' = ~isDarkMode
    /\ isPaused' = ~isPaused
    /\ ui' = bubble(toggleTheme(ui), TRUE)
    /\ UNCHANGED <<pc, alertShown, isRunning, intervalId, observer, observing,
                   config, statsInterval, stats, tickTimers, redrawTimers, now, host,
                   drag, press, dispatched>>

\* A click on the theme button (hidden while the overlay is collapsed).
ClickTheme ==
    /\ pc = "ready"
    /\ ui.present /\ ~ui.minimized
    /\ Did("toggleTheme")
    /\ raised' = FALSE
    /\ isDarkMode' = ~isDarkMode
    /\ ui' = bubble(toggleTheme(ui), TRUE)
    /\ UNCHANGED <<pc, alertShown, isRunning, isPaused, intervalId, observer, observing,
                   config, statsInterval, stats, tickTimers, redrawTimers, now, host,
                   dispatched>>
    /\ UNCHANGED <<drag, press>>

\* A click on the minimize button (hidden while the overlay is collapsed): the
\* button's handler runs, then the click bubbles to the overlay element.
ClickMinimize ==
    /\ pc = "ready"
    /\ ui.present /\ ~ui.minimized
    /\ Did("toggleMinimize")
    /\ raised' = FALSE
    /\ ui' = bubble(toggleMinimize(ui), TRUE)
    /\ UNCHANGED <<pc, alertShown, isRunning, isPaused, intervalId, observer, observing,
                   isDarkMode, config, statsInterval, stats, tickTimers, redrawTimers, now,
                   host, dispatched>>
    /\ UNCHANGED <<drag, press>>

\* A click on the overlay that is on none of its buttons.
ClickOverlay ==
    /\ pc = "ready"
    /\ ui.present
    /\ Did("click")
    /\ raised' = FALSE
    /\ ui' = bubble(ui, FALSE)
    /\ UNCHANGED <<pc, alertShown, isRunning, isPaused, intervalId, observer, observing,
                   isDarkMode, config, statsInterval, stats, tickTimers, redrawTimers, now,
                   host, dispatched>>
    /\ UNCHANGED <<drag, press>>

\* The close button, or a call of closeUI().
Close ==
    /\ pc = "ready"
    /\ Did("closeUI")
    /\ raised' = FALSE
    /\ closeUI
    /\ UNCHANGED <<pc, alertShown, isDarkMode, config, statsInterval, stats, now, host,
                   dispatched>>
    /\ UNCHANGED <<drag, press>>

(* --------------------------------- drag -------------------------------- *)

\* The coordinates of the mouse events that are followed: the mouse moves
\* along a horizontal line.
CoordsX == 0..1
CoordsY == {0}

\* dragStart(e) that starts at the pointer's place and forgets the offset the
\* overlay already has.
dragStart_forgetsOffset(onButton, x, y) ==
    IF onButton THEN UNCHANGED drag
    ELSE drag' = [drag EXCEPT !.isDragging = TRUE,
                              !.startX = x,
                              !.startY = y,
                              !.cursor = "grabbing"]

\* dragStart(e) of setupDrag, for a mousedown on the header at (x, y) whose
\* target is or is not a button.
dragStart(onButton, x, y) ==
    IF onButton THEN UNCHANGED drag
    ELSE drag' = [drag EXCEPT !.isDragging = TRUE,
                              !.startX = x - drag.currentX,
                              !.startY = y - drag.currentY,
                              !.cursor = "grabbing"]

\* drag(e) of setupDrag at (x, y); without an overlay this.ui.style raises.
dragMove(x, y) ==
    IF ~drag.isDragging THEN UNCHANGED drag /\ raised' = FALSE
    ELSE IF ui.present
    THEN /\ drag' = [drag EXCEPT !.currentX = x - drag.startX,
                                  !.currentY = y - drag.startY,
                                  !.transform = <<x - drag.startX, y - drag.startY>>]
         /\ raised' = FALSE
    ELSE /\ drag' = [drag EXCEPT !.currentX = x - drag.startX,
                                  !.currentY = y - drag.startY]
         /\ raised' = TRUE

\* dragEnd() of setupDrag; without an overlay this.ui.style raises.
dragEnd ==
    /\ drag' = [drag EXCEPT !.isDragging = FALSE,
                             !.cursor = IF ui.present THEN "default" ELSE @]
    /\ raised' = ~ui.present

\* The frame of a pointer event: it changes the drag state alone.
pointerFrame ==
    UNCHANGED <<pc, alertShown, isRunning, isPaused, intervalId, observer, observing,
                isDarkMode, config, ui, statsInterval, stats, tickTimers, redrawTimers,
                now, host, dispatched>>

\* A pointer-down at (x, y) has started a drag: the step notes the place and
\* the overlay's offset.
notePress(onButton, x, y) ==
    press' = IF onButton THEN press
             ELSE [x |-> x, y |-> y, currentX |-> drag.currentX, currentY |-> drag.currentY]

\* A mousedown on the overlay's header; the buttons are hidden while collapsed.
MouseDown ==
    /\ pc = "ready"
    /\ ui.present
    /\ \E onButton \in BOOLEAN, x \in CoordsX, y \in CoordsY :
         /\ onButton => ~ui.minimized
         /\ dragStart(onButton, x, y)
         /\ notePress(onButton, x, y)
         /\ DidWith("mousedown", <<x, y, onButton>>)
    /\ raised' = FALSE
    /\ pointerFrame

\* A mousemove anywhere in the document, once createUI has run. The overlay is
\* followed up to MaxOffset pixels from its place.
MouseMove ==
    /\ pc = "ready"
    /\ statsInterval # 0
    /\ \E x \in CoordsX, y \in CoordsY :
         /\ drag.isDragging =>
               /\ x - drag.startX \in (0 - MaxOffset)..MaxOffset
               /\ y - drag.startY \in (0 - MaxOffset)..MaxOffset
         /\ dragMove(x, y)
         /\ DidWith("mousemove", <<x, y>>)
    /\ UNCHANGED press
    /\ pointerFrame

\* A mouseup anywhere in the document, once createUI has run.
MouseUp ==
    /\ pc = "ready"
    /\ statsInterval # 0
    /\ dragEnd
    /\ Did("mouseup")
    /\ UNCHANGED press
    /\ pointerFrame

\* A touchstart on the overlay's header: the listener hands the first touch
\* point and the event's target to dragStart.
TouchStart ==
    /\ pc = "ready"
    /\ ui.present
    /\ \E onButton \in BOOLEAN, x \in CoordsX, y \in CoordsY :
         /\ onButton => ~ui.minimized
         /\ dragStart(onButton, x, y)
         /\ notePress(onButton, x, y)
         /\ DidWith("touchstart", <<x, y, onButton>>)
    /\ raised' = FALSE
    /\ pointerFrame

\* A touchmove anywhere in the document: the listener calls drag with the first
\* touch point, and only while dragging.
TouchMove ==
    /\ pc = "ready"
    /\ statsInterval # 0
    /\ \E x \in CoordsX, y \in CoordsY :
         /\ drag.isDragging =>
               /\ x - drag.startX \in (0 - MaxOffset)..MaxOffset
               /\ y - drag.startY \in (0 - MaxOffset)..MaxOffset
         /\ IF drag.isDragging THEN dragMove(x, y)
            ELSE UNCHANGED drag /\ raised' = FALSE
         /\ DidWith("touchmove", <<x, y>>)
    /\ UNCHANGED press
    /\ pointerFrame

\* A touchend anywhere in the document.
TouchEnd ==
    /\ pc = "ready"
    /\ statsInterval # 0
    /\ dragEnd
    /\ Did("touchend")
    /\ UNCHANGED press
    /\ pointerFrame

\* A call of toggleMinimize() that is no click on the button: nothing bubbles.
\* Without an overlay this.ui.classList raises. The overlay is followed up to
\* MaxListeners registered restore listeners.
CallToggleMinimize ==
    /\ pc = "ready"
    /\ ui.present => ui.restoreListeners < MaxListeners
    /\ IF ui.present
       THEN ui' = toggleMinimize(ui) /\ raised' = FALSE
       ELSE UNCHANGED ui /\ raised' = TRUE
    /\ Did("toggleMinimize")
    /\ UNCHANGED <<pc, alertShown, isRunning, isPaused, intervalId, observer, observing,
                   isDarkMode, config, statsInterval, stats, tickTimers, redrawTimers, now,
                   host, drag, press, dispatched>>

(* ----------------------------- environment ----------------------------- *)

\* The host page changes its target element's content or moves the focus. An
\* element that the page has replaced is detached and keeps its content.
HostChange ==
    /\ pc = "ready"
    /\ \E t \in Texts, f \in BOOLEAN :
         /\ host' = IF host.replaced
                    THEN [host EXCEPT !.current = t, !.focus = f]
                    ELSE [host EXCEPT !.text = t, !.current = t, !.focus = f]
         /\ host' # host
    /\ Did("host")
    /\ raised' = FALSE
    /\ UNCHANGED <<pc, alertShown, isRunning, isPaused, intervalId, observer, observing,
                   isDarkMode, config, ui, statsInterval, stats, tickTimers, redrawTimers,
                   now, dispatched>>
    /\ UNCHANGED <<drag, press>>

\* The contents of the target element that are followed for the keypress
\* event: a letter, a space, an escaped ampersand, two letters.
KeyTexts == {"a", " ", "&amp;", "ab"}

\* The host page shows another content in its target element.
HostShows ==
    /\ pc = "ready"
    /\ ~host.replaced
    /\ \E t \in KeyTexts : host' = [host EXCEPT !.text = t, !.current = t]
    /\ host' # host
    /\ Did("host")
    /\ raised' = FALSE
    /\ UNCHANGED <<pc, alertShown, isRunning, isPaused, intervalId, observer, observing,
                   isDarkMode, config, ui, statsInterval, stats, tickTimers, redrawTimers,
                   now, dispatched>>
    /\ UNCHANGED <<drag, press>>

\* The host page changes the start dialog: a connected observer's callback
\* disconnects it.
DialogMutation ==
    /\ pc = "ready"
    /\ observing
    /\ Did("mutation")
    /\ raised' = FALSE
    /\ observing' = FALSE
    /\ UNCHANGED <<pc, alertShown, isRunning, isPaused, intervalId, observer, isDarkMode,
                   config, ui, statsInterval, stats, tickTimers, redrawTimers, now, host,
                   dispatched>>
    /\ UNCHANGED <<drag, press>>

\* Time passes.
Advance ==
    /\ pc = "ready"
    /\ now < MaxTime
    /\ now' = now + 1
    /\ Did("advance")
    /\ raised' = FALSE
    /\ UNCHANGED <<pc, alertShown, isRunning, isPaused, intervalId, observer, observing,
                   isDarkMode, config, ui, statsInterval, stats, tickTimers, redrawTimers,
                   host, dispatched>>
    /\ UNCHANGED <<drag, press>>

\* A call of isValidInput(e); the step records the input and the answer.
Validate ==
    /\ pc = "ready"
    /\ \E e \in ConfigEntries : DidWith("isValidInput", <<e, isValidInput(e)>>)
    /\ raised' = FALSE
    /\ UNCHANGED <<pc, alertShown, isRunning, isPaused, intervalId, observer, observing,
                   isDarkMode, config, ui, statsInterval, stats, tickTimers, redrawTimers,
                   now, host, dispatched>>
    /\ UNCHANGED <<drag, press>>

\* The host page replaces its target element by a new element with content t.
ReplaceTarget ==
    /\ pc = "ready"
    /\ ~host.replaced
    /\ \E t \in Texts : host' = [host EXCEPT !.replaced = TRUE, !.current = t]
    /\ Did("replace")
    /\ raised' = FALSE
    /\ UNCHANGED <<pc, alertShown, isRunning, isPaused, intervalId, observer, observing,
                   isDarkMode, config, ui, statsInterval, stats, tickTimers, redrawTimers,
                   now, dispatched>>
    /\ UNCHANGED <<drag, press>>

Next ==
    \/ init
    \/ \E e \in Entries : promptEntry(e)
    \/ Start
    \/ TogglePause
    \/ Stop
    \/ Status
    \/ Tick
    \/ Redraw
    \/ ClickTheme
    \/ ClickMinimize
    \/ ClickOverlay
    \/ Close
    \/ HostChange
    \/ DialogMutation
    \/ Advance

Spec == Init /\ [][Next]_vars

\* The configuration and the controller alone, with more entries at the prompt
\* and without the overlay's clicks, the redraw timer, the clock and the host.
NextConfig ==
    \/ init
    \/ \E e \in ConfigEntries : promptEntry(e)
    \/ Start
    \/ TogglePause
    \/ Stop
    \/ Status
    \/ Tick
    \/ Close
    \/ Validate

SpecConfig == Init /\ [][NextConfig]_vars

\* The controller on a host page that may replace its target element.
NextHost ==
    \/ init
    \/ \E e \in Entries : promptEntry(e)
    \/ Start
    \/ TogglePause
    \/ Stop
    \/ Tick
    \/ HostChange
    \/ ReplaceTarget

SpecHost == Init /\ [][NextHost]_vars

\* The controller and the overlay with its mouse events, without the redraw
\* timer, the clock and the host page's changes, and with one rate.
OverlayEntries == { <<"0">>, <<"6", "0", "0">> }

NextOverlay ==
    \/ init
    \/ \E e \in OverlayEntries : promptEntry(e)
    \/ Start
    \/ TogglePause
    \/ Stop
    \/ Tick
    \/ ClickTheme
    \/ ClickMinimize
    \/ ClickOverlay
    \/ CallToggleMinimize
    \/ Close
    \/ MouseDown
    \/ MouseMove
    \/ MouseUp

SpecOverlay == Init /\ [][NextOverlay]_vars

\* The controller and the host page, with one rate. The browser keeps firing an
\* interval timer for as long as it is scheduled: the typing tick is weakly fair.
NextLive ==
    \/ init
    \/ \E e \in OverlayEntries : promptEntry(e)
    \/ Start
    \/ TogglePause
    \/ Stop
    \/ Tick
    \/ Close
    \/ HostChange

SpecLive == Init /\ [][NextLive]_vars /\ WF_vars(Tick)

\* The typing session on a host page that shows letters, spaces and escaped
\* characters, with one rate.
NextKeys ==
    \/ init
    \/ \E e \in OverlayEntries : promptEntry(e)
    \/ Start
    \/ TogglePause
    \/ Stop
    \/ Tick
    \/ HostChange
    \/ HostShows

SpecKeys == Init /\ [][NextKeys]_vars

\* The overlay and its pointer events, mouse and touch, with one rate.
NextDrag ==
    \/ init
    \/ \E e \in OverlayEntries : promptEntry(e)
    \/ Start
    \/ Stop
    \/ ClickMinimize
    \/ Close
    \/ MouseDown
    \/ MouseMove
    \/ MouseUp
    \/ TouchStart
    \/ TouchMove
    \/ TouchEnd

SpecDrag == Init /\ [][NextDrag]_vars

(* ------------------------------- claims -------------------------------- *)

\* Everything but the record of the last handler.
program == <<pc, alertShown, isRunning, isPaused, intervalId, observer, observing,
             isDarkMode, config, ui, statsInterval, stats, tickTimers, redrawTimers,
             now, host, drag, dispatched>>

\* The moves of the run state that the state machine allows, with the handler of each.
C1_Move ==
    \/ RunState = "Idle" /\ RunState' = "Running" /\ op' = "startTyping"
    \/ RunState = "Running" /\ RunState' = "Paused" /\ op' = "togglePause"
    \/ RunState = "Paused" /\ RunState' = "Running" /\ op' = "togglePause"
    \/ RunState \in {"Running", "Paused"} /\ RunState' = "Idle" /\ op' \in {"stop", "closeUI"}

\* C1: the run state is always Idle, Running or Paused (never paused without
\* running), and it changes only Idle->Running by startTyping, Running<->Paused
\* by togglePause, and Running/Paused->Idle by stop or closeUI; every other
\* handler (tick, redraw, getStatus, the overlay's clicks) leaves it as it is.
C1_RunStateMachine ==
    /\ [](RunState \in {"Idle", "Running", "Paused"})
    /\ [][RunState' # RunState => C1_Move]_vars

\* C1 witness: a Paused session has just been stopped.
C1_Witness == op = "stop" /\ pre = "Paused" /\ RunState = "Idle"

\* C2: stop() leaves no typing timer active, and while the session is not
\* running no step other than the next startTyping changes charactersTyped or
\* dispatches a keystroke.
C2_StopCancelsTicks ==
    [][/\ op' = "stop" => tickTimers' = {}
       /\ (~isRunning /\ op' # "startTyping") =>
             (stats'.charactersTyped = stats.charactersTyped /\ dispatched' = dispatched)]_vars

\* C2 witness: a Running session that had typed was stopped, and time has passed
\* since with a character and a focused element available.
C2_Witness ==
    /\ op = "advance" /\ pre = "Idle" /\ ~isRunning
    /\ stats.charactersTyped > 0 /\ host.text # "" /\ host.focus

\* C3: startTyping() on a running session (Running or Paused) changes nothing:
\* flags, counters, start time, timer handle and the active timers stay.
C3_StartWhileRunningNoOp ==
    [][(op' = "startTyping" /\ isRunning) => UNCHANGED program]_vars

\* C3 witness: startTyping() was called on a Paused session that had typed and
\* had started earlier than now.
C3_Witness ==
    /\ op = "startTyping" /\ pre = "Paused"
    /\ stats.charactersTyped > 0 /\ stats.startTime < now

\* C4: startTyping() on an Idle session sets isRunning, clears isPaused, resets
\* charactersTyped to 0 and startTime to now, and schedules exactly one typing
\* timer, with the stored interval, which is 600000 / rate for a configured rate.
C4_StartFromIdle ==
    [][(op' = "startTyping" /\ ~isRunning) =>
          /\ isRunning' /\ ~isPaused'
          /\ stats'.charactersTyped = 0 /\ stats'.startTime = now
          /\ intervalId' # 0
          /\ tickTimers' = {[id |-> intervalId', ms |-> config.msToWait]}
          /\ (config.charsPerTenMins > 0 =>
                 config.msToWait = Quot(TenMinutesMs, config.charsPerTenMins))]_vars

\* C4 witness: a session has just been started at a later time after an earlier
\* session that had typed.
C4_Witness ==
    /\ op = "startTyping" /\ pre = "Idle" /\ isRunning
    /\ stats.lastTypedTime # 0 /\ stats.charactersTyped = 0 /\ stats.startTime > 1
    /\ config.charsPerTenMins > 0

\* C5: after stop() no typing timer is active, no observer is registered, and
\* the session is Idle; a stop() right after a stop() changes nothing.
C5_StopPostcondition ==
    [][op' = "stop" =>
          /\ tickTimers' = {} /\ intervalId' = 0
          /\ ~observer' /\ ~observing'
          /\ ~isRunning' /\ ~isPaused'
          /\ (op = "stop" => UNCHANGED program)]_vars

\* C5 witness: stop() was called twice in a row.
C5_Witness == op = "stop" /\ pre = "Idle" /\ stats.startTime # 0 /\ ~observer

\* The fields of the snapshot that the claim names.
statusFields == [isRunning |-> getStatus.isRunning,
                 charsPerTenMins |-> getStatus.charsPerTenMins,
                 charactersTyped |-> getStatus.charactersTyped]

\* C6 as stated: stop() on an Idle session changes no controller state and
\* leaves the status snapshot as it was.
C6_StopWhileIdleNoOp ==
    [][(op' = "stop" /\ ~isRunning) =>
          (UNCHANGED <<controller, tickTimers>> /\ statusFields' = statusFields)]_vars

\* C6 amended: stop() on an Idle session disconnects and clears a start-dialog
\* observer that is still registered, changes nothing else, and leaves the
\* status snapshot as it was.
C6_StopWhileIdleKeepsStatus ==
    [][(op' = "stop" /\ ~isRunning) =>
          /\ UNCHANGED <<pc, alertShown, isRunning, isPaused, intervalId, isDarkMode, config,
                         ui, statsInterval, stats, tickTimers, redrawTimers, now, host,
                         dispatched>>
          /\ ~observer' /\ ~observing'
          /\ getStatus' = getStatus]_vars

\* C6 witness: stop() was called on the Idle session after a session that had typed.
C6_Witness ==
    op = "stop" /\ pre = "Idle" /\ stats.charactersTyped > 0 /\ ~observer

\* C7: togglePause() changes nothing on an Idle session; on a running session
\* it flips isPaused and leaves the counters, the start time, the rate and the
\* typing timer as they are; after two calls in a row the run state is the one
\* before the first.
C7_TogglePause ==
    [][op' = "togglePause" =>
          /\ IF isRunning
             THEN /\ isPaused' = ~isPaused
                  /\ UNCHANGED <<isRunning, stats, config, intervalId, tickTimers, dispatched>>
             ELSE UNCHANGED program
          /\ (op = "togglePause" => RunState' = pre)]_vars

\* C7 witness: a Paused session that had typed has been resumed with its count.
C7_Witness ==
    /\ op = "togglePause" /\ pre = "Paused" /\ RunState = "Running"
    /\ stats.charactersTyped > 0

\* C8: a tick of a Paused session dispatches nothing and leaves the counters;
\* a tick of a Running session with a target character and a focused element
\* dispatches one keystroke and counts it.
C8_PausedTicks ==
    [][op' = "tick" =>
          /\ isPaused => UNCHANGED <<stats, dispatched>>
          /\ (isRunning /\ ~isPaused /\ config.targetElement /\ host.text # "" /\ host.focus) =>
                /\ dispatched' = dispatched + 1
                /\ stats'.charactersTyped = stats.charactersTyped + 1]_vars

\* C8 witness: a tick fired on a Paused session that had typed, with a target
\* character and a focused element available.
C8_Witness ==
    /\ op = "tick" /\ pre = "Paused" /\ isPaused
    /\ stats.charactersTyped > 0 /\ host.text # "" /\ host.focus

\* C9: charactersTyped is the number of keystrokes dispatched since the last
\* startTyping(); it grows only by a tick, by one, together with one dispatch,
\* and the session is running after such a tick.
C9_CountsDispatches ==
    /\ [](stats.charactersTyped = dispatched)
    /\ [][stats'.charactersTyped > stats.charactersTyped =>
            /\ op' = "tick"
            /\ stats'.charactersTyped = stats.charactersTyped + 1
            /\ dispatched' = dispatched + 1
            /\ isRunning']_vars

\* C9 witness: two ticks of one session have typed.
C9_Witness ==
    op = "tick" /\ stats.charactersTyped = 2 /\ dispatched = 2 /\ isRunning

\* C10: a tick that finds the target element's content empty, or that fails
\* on a missing target element, raises nothing, dispatches nothing and leaves
\* the counters, the run flags and the typing timer as they are.
C10_SkippedTick ==
    [][(op' = "tick" /\ (host.text = "" \/ ~config.targetElement)) =>
          /\ ~raised'
          /\ UNCHANGED <<stats, dispatched, isRunning, isPaused, intervalId, tickTimers,
                         alertShown>>]_vars

\* C10 witness: a tick of a Running session failed on the missing target element.
C10_Witness ==
    op = "tick" /\ pre = "Running" /\ ~config.targetElement /\ isRunning /\ tickTimers # {}

\* The entry is a decimal numeral: an optional sign and digits only.
IsNumeral(e) ==
    LET u == IF e # <<>> /\ Head(e) \in {"-", "+"} THEN Tail(e) ELSE e
    IN u # <<>> /\ \A i \in 1..Len(u) : IsDigit(u[i])

\* The number a decimal numeral denotes.
NumeralValue(e) ==
    IF Head(e) = "-" THEN 0 - DigitsValue(Tail(e), 0)
    ELSE IF Head(e) = "+" THEN DigitsValue(Tail(e), 0)
    ELSE DigitsValue(e, 0)

\* C11: a round of the prompt loop ends the loop exactly when the entry is a
\* number in 1..10000 (every non-numeric entry, every entry <= 0 or > 10000 is
\* asked again), and once configuration has completed the stored rate is in
\* 1..10000.
C11_AcceptsExactlyValidRates ==
    /\ [][op' = "prompt" =>
            (pc' = "ready" <=> (IsNumeral(arg') /\ NumeralValue(arg') \in 1..MaxRate))]_vars
    /\ [](pc = "ready" /\ alertShown = "none" => config.charsPerTenMins \in 1..MaxRate)

\* The tick interval and the rate as JavaScript holds them: doubles.
tickIntervalMs == JsNumber(config.msToWait)
tickIntervalTimesRate == DoubleMulInt(tickIntervalMs, config.charsPerTenMins)

unconfigured == [charsPerTenMins |-> 0, msToWait |-> Zero,
                 targetElement |-> FALSE, startBox |-> FALSE]

C14_MissingTargetAbortsInit ==
    [][op' = "init" /\ alertShown' = "initFailed" =>
          /\ pc' = "ready"
          /\ config'.charsPerTenMins = 0 /\ config'.msToWait = Zero
          /\ ~observer' /\ ~observing'
          /\ ui' = NoUI
          /\ redrawTimers' = {} /\ tickTimers' = {}]_vars

\* C15: minimizing collapses the overlay and leaves its once-only restore
\* listener registered (the minimize click does not consume it); the next click
\* on the collapsed overlay restores it; so a collapsed overlay can always be
\* restored by one click.
C15_MinimizedCanBeRestored ==
    /\ [][op' = "toggleMinimize" /\ ~ui.minimized =>
            ui'.minimized /\ ui'.restoreListeners > 0]_vars
    /\ [][op' = "click" /\ ui.present /\ ui.minimized => ~ui'.minimized]_vars
    /\ [](ui.present /\ ui.minimized => ui.restoreListeners > 0)

\* C16: closing the overlay cancels both periodic timers and everything stop()
\* cancels: afterwards the session is Idle, no typing timer and no redraw timer
\* is scheduled, no observer is registered and the overlay is removed; stop()
\* alone cancels the typing timer and leaves the redraw timer as it was.
C16_CloseCancelsEverything ==
    /\ [][op' = "closeUI" =>
            /\ RunState' = "Idle"
            /\ tickTimers' = {} /\ redrawTimers' = {}
            /\ ~observer' /\ ~observing'
            /\ ui' = NoUI]_vars
    /\ [][op' = "stop" => tickTimers' = {} /\ redrawTimers' = redrawTimers]_vars

\* The overlay has just been closed during a session whose overlay had been built.
C16_Witness ==
    op = "closeUI" /\ pre = "Running" /\ statsInterval # 0 /\ redrawTimers = {}

\* stop() has just ended a session and the redraw timer is still scheduled.
C16_StopWitness == op = "stop" /\ pre = "Running" /\ redrawTimers # {}

\* C17: on every tick that types, both host bindings are looked up live: a
\* keystroke is dispatched exactly when the page's current target element has
\* content and an element has the focus, and the key is that current content,
\* also after the page has replaced its target element.
C17_LiveLookup ==
    [][op' = "tick" /\ isRunning /\ ~isPaused /\ config.targetElement =>
          /\ (dispatched' = dispatched + 1) <=> (host.current # "" /\ host.focus)
          /\ (dispatched' = dispatched + 1) => arg'[1] = host.current]_vars

\* The Session of the controller and its scheduled typing timer.
session == <<isRunning, isPaused, config.charsPerTenMins, config.msToWait,
             stats.charactersTyped, stats.startTime, intervalId, tickTimers>>

\* C18: the overlay's cosmetic operations (toggle theme, minimize, restore,
\* drag start, move and end) leave the Session and the scheduled typing timer
\* unchanged, in every run state.
C18_CosmeticsKeepSession ==
    [][op' \in {"toggleTheme", "toggleMinimize", "click", "mousedown", "mousemove", "mouseup"}
          => session' = session]_vars

\* The overlay has just been dragged away from its place during a running session.
C18_Witness ==
    /\ op = "mousemove" /\ pre = "Running" /\ drag.isDragging
    /\ drag.transform # "none" /\ drag.currentX # 0

\* A click has just restored the collapsed overlay during a paused session.
C18_RestoreWitness ==
    op = "click" /\ pre = "Paused" /\ ui.present /\ ~ui.minimized /\ ui.restoreListeners = 0
      /\ drag.cursor = "default"

\* C19: getStatus() is a pure read: it changes no controller, timer or overlay
\* state, and the snapshot it returns carries the current isRunning,
\* charsPerTenMins and charactersTyped, with elapsed time 0 when no session has
\* ever been started (and the time since the start otherwise).
C19_StatusIsPureRead ==
    [][op' = "getStatus" =>
          /\ program' = program
          /\ arg'[1].isRunning = isRunning
          /\ arg'[1].charsPerTenMins = config.charsPerTenMins
          /\ arg'[1].charactersTyped = stats.charactersTyped
          /\ arg'[1].timeRunning = IF stats.startTime = 0 THEN 0 ELSE now - stats.startTime]_vars

\* getStatus() has just been called before any session was started.
C19_Witness ==
    /\ op = "getStatus" /\ stats.startTime = 0 /\ now > 0
    /\ config.charsPerTenMins > 0 /\ arg[1].timeRunning = 0

\* getStatus() has just been called in a running session that has typed.
C19_RunningWitness ==
    op = "getStatus" /\ isRunning /\ arg[1].charactersTyped > 0 /\ arg[1].timeRunning > 0

\* C20: in every reachable state a typing timer is scheduled if and only if
\* the session is running (Running or Paused), at most one typing timer is
\* scheduled, and it is the one intervalId names.
C20_OneTimerIffRunning ==
    /\ (tickTimers # {}) <=> isRunning
    /\ Cardinality(tickTimers) <= 1
    /\ \A t \in tickTimers : t.id = intervalId

\* A tick has just typed in a running session with its one timer.
C20_Witness ==
    /\ op = "tick" /\ isRunning /\ stats.charactersTyped > 0
    /\ Cardinality(tickTimers) = 1

\* C21: whenever the session is running, a valid rate has been configured: the
\* rate is in 1..10000, the interval of the scheduled typing timer is
\* 600000 / rate and not 0, and a target element is bound; so no session is
\* running after a failed initialization.
C21_RunningImpliesConfigured ==
    isRunning =>
        /\ config.charsPerTenMins \in 1..MaxRate
        /\ \A t \in tickTimers :
              t.ms # Zero /\ t.ms = Quot(TenMinutesMs, config.charsPerTenMins)
        /\ config.targetElement
        /\ alertShown = "none"

\* C22: while the session stays Running, the bound target element keeps holding
\* a character and an element keeps the focus, the fairly firing typing timer
\* eventually increases charactersTyped; a tick, failed or empty or not, raises
\* nothing, leaves the run state and the scheduled timer as they were, and the
\* session leaves Running only through togglePause(), stop() or closeUI().
C22_TicksKeepRunning ==
    /\ \A n \in 0..(MaxTyped - 1) :
          (/\ RunState = "Running" /\ stats.charactersTyped = n
           /\ config.targetElement /\ keyToPress # "" /\ host.focus)
          ~> (\/ stats.charactersTyped > n
              \/ RunState # "Running" \/ keyToPress = "" \/ ~host.focus)
    /\ [][op' = "tick" =>
            /\ ~raised'
            /\ isRunning' = isRunning /\ isPaused' = isPaused
            /\ intervalId' = intervalId /\ tickTimers' = tickTimers]_vars
    /\ [][RunState = "Running" /\ RunState' # "Running" =>
            op' \in {"togglePause", "stop", "closeUI"}]_vars

\* An empty tick has just left the session Running with its timer scheduled.
C22_Witness ==
    /\ op = "tick" /\ pre = "Running" /\ RunState = "Running"
    /\ keyToPress = "" /\ tickTimers # {} /\ config.targetElement

\* A tick has just typed the last character that is followed.
C22_TypedWitness ==
    op = "tick" /\ RunState = "Running" /\ stats.charactersTyped = MaxTyped

\* C23: immediately after every redraw the status text is "Running" iff running
\* and not paused, "Paused" iff running and paused, "Stopped" iff not running;
\* the Start button is disabled iff running, the Pause and Stop buttons iff not
\* running; the displayed count equals charactersTyped; and the redraw has
\* changed nothing of the Session.
C23_RedrawShowsSession ==
    [][op' = "updateStats" /\ ui'.present =>
          /\ (ui'.statusText = "Running") <=> (isRunning' /\ ~isPaused')
          /\ (ui'.statusText = "Paused") <=> (isRunning' /\ isPaused')
          /\ (ui'.statusText = "Stopped") <=> ~isRunning'
          /\ ui'.startDisabled <=> isRunning'
          /\ ui'.pauseDisabled <=> ~isRunning'
          /\ ui'.stopDisabled <=> ~isRunning'
          /\ ui'.charsTyped = stats'.charactersTyped
          /\ session' = session
          /\ <<observer, observing, config, stats, dispatched>>'
               = <<observer, observing, config, stats, dispatched>>]_vars

\* A redraw has just shown a paused session that has typed.
C23_Witness ==
    /\ op = "updateStats" /\ pre = "Paused" /\ ui.present
    /\ ui.statusText = "Paused" /\ ui.charsTyped > 0

\* The overlay's offset from its place.
offset == <<drag.currentX, drag.currentY>>

\* C25: a drag starts only with a pointer-down on the header that is on no
\* button, and ends with the next release; a pointer-down on a button changes
\* nothing; a move outside a drag changes nothing; during a drag every move
\* puts the offset at (its offset at the press) + (pointer position - press
\* position) and translates the overlay by it, so offsets accumulate across
\* drags; a release keeps the offset; nothing else moves the overlay; and mouse
\* and touch events obey the same rules.
C25_DragTracksPointer ==
    /\ [][~drag.isDragging /\ drag'.isDragging =>
            op' \in {"mousedown", "touchstart"} /\ ~arg'[3]]_vars
    /\ [][op' \in {"mousedown", "touchstart"} =>
            /\ offset' = offset
            /\ arg'[3] => drag' = drag
            /\ ~arg'[3] => drag'.isDragging]_vars
    /\ [][op' \in {"mouseup", "touchend"} => ~drag'.isDragging /\ offset' = offset]_vars
    /\ [][op' \in {"mousemove", "touchmove"} =>
            IF ~drag.isDragging THEN drag' = drag
            ELSE /\ drag'.isDragging
                 /\ drag'.currentX - press.currentX = arg'[1] - press.x
                 /\ drag'.currentY - press.currentY = arg'[2] - press.y
                 /\ ui.present => drag'.transform = offset']_vars
    /\ [][op' \notin {"mousedown", "touchstart", "mousemove", "touchmove", "mouseup", "touchend"}
            => drag' = drag]_vars

\* A touch drag that began at an offset left by an earlier drag has just ended
\* at another offset.
C25_Witness ==
    /\ op = "touchend" /\ ~drag.isDragging /\ ui.present
    /\ press.currentX # 0 /\ drag.currentX # press.currentX

\* The same for a mouse drag.
C25_MouseWitness ==
    /\ op = "mouseup" /\ ~drag.isDragging /\ ui.present
    /\ press.currentX # 0 /\ drag.currentX # press.currentX

\* C26: every keystroke a tick dispatches goes to the focused element and
\* carries the target's content as key, the code 32 for a space and otherwise
\* the code of the content's first character, no modifier, bubbles and
\* cancelable; without a focused element nothing is dispatched and
\* charactersTyped stays.
C26_KeypressEvent ==
    [][op' = "tick" =>
          /\ dispatched' \in {dispatched, dispatched + 1}
          /\ dispatched' = dispatched + 1 =>
                /\ host.focus
                /\ stats'.charactersTyped = stats.charactersTyped + 1
                /\ arg'[2].type = "keypress"
                /\ arg'[2].key = host.current
                /\ arg'[2].keyCode = CASE host.current = " " -> 32
                                        [] host.current = "a" -> 97
                                        [] host.current = "ab" -> 97
                                        [] host.current = "&amp;" -> 38
                /\ ~arg'[2].altKey /\ ~arg'[2].ctrlKey
                /\ ~arg'[2].shiftKey /\ ~arg'[2].metaKey
                /\ arg'[2].bubbles /\ arg'[2].cancelable
          /\ ~host.focus =>
                /\ dispatched' = dispatched
                /\ stats'.charactersTyped = stats.charactersTyped]_vars

\* A tick has just typed a space.
C26_Witness ==
    op = "tick" /\ arg # <<>> /\ arg[1] = " " /\ arg[2].keyCode = 32 /\ dispatched > 0

\* A tick has just found a character and no focused element.
C26_NoFocusWitness ==
    /\ op = "tick" /\ pre = "Running" /\ arg = <<>>
    /\ config.targetElement /\ keyToPress = "&amp;" /\ ~host.focus

\* C27: the pause button's label always matches the pause flag: it reads
\* "Resume" if and only if the session is Paused, and "Pause" otherwise.
C27_PauseLabelMatchesFlag ==
    ui.present =>
        /\ (ui.pauseText = "Resume") <=> (RunState = "Paused")
        /\ (ui.pauseText = "Pause") <=> (RunState # "Paused")

\* C28: isValidInput agrees with the rate check of the configuration prompt on
\* every input: isValidInput(x) is true exactly when the prompt loop accepts x,
\* that is, when x parses to an integer in 1..10000.
C28_ValidatorAgreesWithPrompt ==
    [][op' = "isValidInput" =>
          /\ arg'[2] <=> ~promptRejects(parseInt(arg'[1]))
          /\ arg'[2] <=> (~parseInt(arg'[1]).nan /\ parseInt(arg'[1]).val \in 1..MaxRate)]_vars

====
